---- MODULE Spec2Model ----
(***************************************************************************)
(* Bulk issue import of the Jira dashboard: bulkCreateIssues and its       *)
(* helpers getIssueTypesForProject and findUserByEmail, as one state       *)
(* machine whose steps are the points where the server action waits for    *)
(* the tracker.                                                            *)
(***************************************************************************)
EXTENDS Integers, Sequences, FiniteSets, TLC

(***************************************************************************)
(* Bounds of the model.                                                    *)
(***************************************************************************)
\* Largest number of data rows of an uploaded file.
MaxRows == 3

(***************************************************************************)
(* Optional values (undefined / null of the source) are sequences of       *)
(* length at most one.                                                     *)
(***************************************************************************)
None == <<>>
Some(x) == <<x>>
IsSome(o) == Len(o) > 0

Range(s) == {s[j] : j \in 1..Len(s)}

RECURSIVE Concat(_)
Concat(ss) == IF Len(ss) = 0 THEN <<>> ELSE Head(ss) \o Concat(Tail(ss))

\* Array.prototype.filter(Boolean) / filter(p => p !== null) on a list of
\* optional values: the present values, in order.
RECURSIVE Present(_)
Present(os) ==
  IF Len(os) = 0 THEN <<>>
  ELSE IF IsSome(Head(os)) THEN <<Head(os)[1]>> \o Present(Tail(os))
  ELSE Present(Tail(os))

(***************************************************************************)
(* String functions of the source, tabulated over the strings the model    *)
(* uses.                                                                   *)
(***************************************************************************)
toLowerCase(s) ==
  CASE s = "Story" -> "story"
    [] s = "Task" -> "task"
    [] s = "Epic" -> "epic"
    [] s = "EPIC" -> "epic"
    [] s = " Epic " -> " epic "
    [] s = "Sub-task" -> "sub-task"
    [] s = "Bug" -> "bug"
    [] s = "Al@X.io" -> "al@x.io"
    [] OTHER -> s

trim(s) ==
  CASE s = " Epic " -> "Epic"
    [] s = " epic " -> "epic"
    [] OTHER -> s

\* A JavaScript string is truthy when it is not empty.
Truthy(s) == s /= ""

\* parseFloat on a cell: a number, or NaN.
parseFloat(s) ==
  CASE s = "5" -> [nan |-> FALSE, val |-> 5]
    [] s = "0" -> [nan |-> FALSE, val |-> 0]
    [] s = "13" -> [nan |-> FALSE, val |-> 13]
    [] OTHER -> [nan |-> TRUE, val |-> 0]

\* /^[^\s@]+@[^\s@]+\.[^\s@]+$/.test(email)
EmailFormatOk(email) == email \in {"me@x.io", "al@x.io", "Al@X.io", "ghost@x.io"}

(***************************************************************************)
(* Inputs: the uploaded file, the form and the tracker.                    *)
(***************************************************************************)
Row(summary, issueType, parentKey, assignee, reporter, points, description) ==
  [Summary |-> summary, IssueType |-> issueType, ParentKey |-> parentKey,
   Assignee |-> assignee, Reporter |-> reporter, StoryPoints |-> points,
   Description |-> description]

RowStory == Row("Login page", "Story", "", "", "", "5", "As a user")
RowBug == Row("Crash on save", "Bug", "", "al@x.io", "", "", "")
RowOrphanSubtask == Row("Write tests", "Sub-task", "", "", "", "", "")
RowNoSummary == Row("", "Story", "", "", "", "13", "")
RowNoType == Row("No type", "", "", "", "", "", "")
RowEpic == Row("Roadmap", " epic ", "", "", "ghost@x.io", "abc", "")
RowSubtask == Row("Wire API", "sub-task", "PROJ-1", "", "not-an-email", "0", "")

RowSamples ==
  {RowStory, RowBug, RowOrphanSubtask, RowNoSummary, RowNoType, RowEpic, RowSubtask}

AllHeaders ==
  {"Summary", "Issue Type", "Parent Key", "Assignee (Email)", "Reporter (Email)",
   "Story Points", "Description"}

RowSeqs == UNION {[1..n -> RowSamples] : n \in 1..MaxRows}

IssueType(id, name, subtask) == [id |-> id, name |-> name, subtask |-> subtask]

\* The project of the specification's scenario.
ScenarioTypes ==
  << IssueType("10001", "Story", FALSE), IssueType("10002", "Task", FALSE),
     IssueType("10000", "Epic", FALSE), IssueType("10003", "Sub-task", TRUE) >>

\* Another project: other letter cases, and a sub-task type under a name that
\* does not say so.
OtherTypes ==
  << IssueType("20000", "EPIC", FALSE), IssueType("20001", "Story", TRUE),
     IssueType("20002", "Bug", FALSE) >>

ValidCredentialsString == "{email:me@x.io,domain:acme.atlassian.net,apiToken:t0k}"

\* JSON.parse(credentialsString) as Credentials; None when it throws.
JSONparse(s) ==
  IF s = ValidCredentialsString
  THEN Some([email |-> "me@x.io", domain |-> "acme.atlassian.net", apiToken |-> "t0k"])
  ELSE None

\* formData of a call: a readable sheet with rows, or one of the inputs that
\* end the call before the tracker is asked.
GoodForm(rows) ==
  [file |-> Some([readable |-> TRUE, headers |-> AllHeaders, rows |-> rows]),
   projectId |-> "10400", projectKey |-> "PROJ",
   credentials |-> ValidCredentialsString]

BadForms ==
  LET g == GoodForm(<<RowStory>>)
      f == g.file[1] IN
  { [g EXCEPT !.file = None],
    [g EXCEPT !.projectKey = ""],
    [g EXCEPT !.credentials = "{oops"],
    [g EXCEPT !.file = Some([f EXCEPT !.readable = FALSE])],
    [g EXCEPT !.file = Some([f EXCEPT !.rows = <<>>])],
    [g EXCEPT !.file = Some([f EXCEPT !.headers = AllHeaders \ {"Summary"}])],
    [g EXCEPT !.file = Some([f EXCEPT !.headers = AllHeaders \ {"Issue Type"}])] }

Forms == {GoodForm(rows) : rows \in RowSeqs} \cup BadForms

\* GET /user/search?query=<email>: the users the tracker returns.
JiraUser(accountId, emailAddress) == [accountId |-> accountId, emailAddress |-> emailAddress]

UserSearch(query) ==
  CASE query = "me@x.io" -> << JiraUser("acc-me", Some("me@x.io")) >>
    [] query = "al@x.io" -> << JiraUser("acc-hidden", None), JiraUser("acc-al", Some("Al@X.io")) >>
    [] OTHER -> <<>>

(***************************************************************************)
(* Map, as the source uses it: insertion-ordered keys, a later set of an   *)
(* existing key replaces its value in place.                               *)
(***************************************************************************)
MapSet(m, k, v) ==
  IF \E j \in 1..Len(m) : m[j].key = k
  THEN [j \in 1..Len(m) |-> IF m[j].key = k THEN [key |-> k, value |-> v] ELSE m[j]]
  ELSE Append(m, [key |-> k, value |-> v])

RECURSIVE NewMap(_)
NewMap(entries) ==
  IF Len(entries) = 0 THEN <<>>
  ELSE LET n == Len(entries) IN
       MapSet(NewMap(SubSeq(entries, 1, n - 1)), entries[n].key, entries[n].value)

MapGet(m, k) ==
  IF \E j \in 1..Len(m) : m[j].key = k
  THEN Some((CHOOSE e \in Range(m) : e.key = k).value)
  ELSE None

MapKeys(m) == [j \in 1..Len(m) |-> m[j].key]

\* new Map(projectIssueTypes.map(it => [it.name.toLowerCase(), it]))
BuildIssueTypesMap(projectIssueTypes) ==
  NewMap([j \in 1..Len(projectIssueTypes) |->
            [key |-> toLowerCase(projectIssueTypes[j].name),
             value |-> projectIssueTypes[j]]])

(***************************************************************************)
(* Messages.  A message of the source is a template filled with values;    *)
(* the model keeps the template's name and the values.                     *)
(***************************************************************************)
Message(kind, rowNum, issueType, summary, validNames, errorMessages) ==
  [kind |-> kind, rowNum |-> rowNum, issueType |-> issueType, summary |-> summary,
   validNames |-> validNames, errorMessages |-> errorMessages]

\* `Row ${rowNum}: Invalid issue type "${row['Issue Type']}". Valid types for
\* this project are: ${validNames}.`
InvalidIssueTypeMessage(rowNum, issueType, validNames) ==
  Message("InvalidIssueType", Some(rowNum), issueType, None, validNames, <<>>)

\* `Row ${rowNum}: Sub-task "${row.Summary}" is missing a 'Parent Key'.`
MissingParentKeyMessage(rowNum, summary) ==
  Message("MissingParentKey", Some(rowNum), "", Some(summary), <<>>, <<>>)

\* `Issue "${failedIssueSummary}": ${errorMessages}`
ApiErrorMessage(failedIssueSummary, errorMessages) ==
  Message("ApiError", None, "", failedIssueSummary, <<>>, errorMessages)

(***************************************************************************)
(* Row validation: the part of the row callback before its first await.    *)
(***************************************************************************)
\* const rowNum = index + 2, index counted from 0.
RowNum(index) == index + 2

\* Mutation of RequiredMissing: the Summary cell is not checked.
RequiredMissingIssueTypeOnly(row) == ~Truthy(row.IssueType)

\* !row.Summary || !row['Issue Type']
RequiredMissing(row) == ~Truthy(row.Summary) \/ ~Truthy(row.IssueType)

\* String(row['Issue Type']).trim().toLowerCase()
IssueTypeName(row) == toLowerCase(trim(row.IssueType))

\* validIssueTypesMap.get(issueTypeName)
LookupIssueType(row, map) == MapGet(map, IssueTypeName(row))

\* Array.from(validIssueTypesMap.keys()), joined with ', ' in the message.
ValidNames(map) == MapKeys(map)

\* Mutation of SubtaskWithoutParent: sub-task types are recognised by name
\* instead of by the subtask flag of the project's descriptor.
SubtaskByNameWithoutParent(issueType, row) ==
  toLowerCase(issueType.name) \in {"sub-task", "subtask"} /\ ~Truthy(row.ParentKey)

\* issueType.subtask && !parentKey
SubtaskWithoutParent(issueType, row) == issueType.subtask /\ ~Truthy(row.ParentKey)

\* The outcome of the three validation rules for one row: whether the callback
\* returns null, and the message it pushes to issueCreationFailures.
ValidateRow(row, index, map) ==
  LET found == LookupIssueType(row, map) IN
  IF RequiredMissing(row)
  THEN [skip |-> TRUE, failure |-> None]
  ELSE IF ~IsSome(found)
  THEN [skip |-> TRUE,
        failure |-> Some(InvalidIssueTypeMessage(RowNum(index), row.IssueType,
                                                 ValidNames(map)))]
  ELSE IF SubtaskWithoutParent(found[1], row)
  THEN [skip |-> TRUE, failure |-> Some(MissingParentKeyMessage(RowNum(index), row.Summary))]
  ELSE [skip |-> FALSE, failure |-> None]

(***************************************************************************)
(* findUserByEmail.                                                        *)
(***************************************************************************)
Lookup(st, email, user) == [st |-> st, email |-> email, user |-> user]

\* The call up to its await: null at once for an empty or ill-formed email,
\* else a request in flight.
findUserByEmailCall(email) ==
  IF ~Truthy(email) \/ ~EmailFormatOk(email)
  THEN Lookup("null", email, None)
  ELSE Lookup("pending", email, None)

\* The rest of the call, given the tracker's answer.
findUserByEmailReturn(email, resp) ==
  IF resp.kind /= "ok" THEN None
  ELSE LET hits == {j \in 1..Len(resp.users) :
                      /\ IsSome(resp.users[j].emailAddress)
                      /\ toLowerCase(resp.users[j].emailAddress[1]) = toLowerCase(email)}
       IN IF hits = {} THEN None
          ELSE Some(resp.users[CHOOSE j \in hits : \A h \in hits : j <= h])

\* assigneeEmail ? findUserByEmail(assigneeEmail, ...) : null
AssigneeLookup(row) ==
  IF Truthy(row.Assignee) THEN findUserByEmailCall(row.Assignee)
  ELSE Lookup("null", "", None)

\* Mutation of ReporterLookup: an empty Reporter cell is not looked up at all.
ReporterLookupNoDefault(row, currentUserEmail) ==
  IF Truthy(row.Reporter) THEN findUserByEmailCall(row.Reporter)
  ELSE Lookup("null", "", None)

\* reporterEmail ? findUserByEmail(reporterEmail, ...) : findUserByEmail(currentUserEmail, ...)
ReporterLookup(row, currentUserEmail) ==
  IF Truthy(row.Reporter) THEN findUserByEmailCall(row.Reporter)
  ELSE findUserByEmailCall(currentUserEmail)

\* Mutation of NoLookups: a skipped row still has the importing user looked up
\* as its reporter.
NoLookupsButReporter ==
  [assignee |-> Lookup("null", "", None), reporter |-> Lookup("pending", "me@x.io", None)]

NoLookups == [assignee |-> Lookup("null", "", None), reporter |-> Lookup("null", "", None)]

\* Mutation of Settled: the row callback goes on once its assignee lookup is
\* over, without waiting for the reporter lookup.
SettledAssigneeOnly(lk) == lk.assignee.st /= "pending"

Settled(lk) == lk.assignee.st /= "pending" /\ lk.reporter.st /= "pending"

(***************************************************************************)
(* Requests to the tracker.                                                *)
(***************************************************************************)
Request(method, path, query, body) ==
  [method |-> method, path |-> path, query |-> query, body |-> body]

IssueTypeRequest(projectId) == Request("GET", "/issuetype/project", projectId, <<>>)
UserSearchRequest(email) == Request("GET", "/user/search", email, <<>>)
BulkRequest(validPayloads) == Request("POST", "/issue/bulk", "", validPayloads)

LookupRequests(lk) ==
  (IF lk.assignee.st = "pending" THEN <<UserSearchRequest(lk.assignee.email)>> ELSE <<>>)
  \o (IF lk.reporter.st = "pending" THEN <<UserSearchRequest(lk.reporter.email)>> ELSE <<>>)

(***************************************************************************)
(* Payload of one validated row.                                           *)
(***************************************************************************)
\* row['Story Points'] ? parseFloat(row['Story Points']) : null
StoryPoints(row) ==
  IF Truthy(row.StoryPoints) THEN Some(parseFloat(row.StoryPoints)) ELSE None

\* storyPoints && !isNaN(storyPoints): null, NaN and 0 are falsy.
StoryPointsSet(storyPoints) ==
  IsSome(storyPoints) /\ ~storyPoints[1].nan /\ storyPoints[1].val /= 0

\* Mutation of IsEpic: the name is compared without lowercasing it.
IsEpicExactCase(issueType) == issueType.name = "Epic"

\* issueType.name.toLowerCase() === 'epic'
IsEpic(issueType) == toLowerCase(issueType.name) = "epic"

\* user?.accountId, when truthy
AccountId(user) ==
  IF IsSome(user) /\ Truthy(user[1].accountId) THEN Some(user[1].accountId) ELSE None

BuildPayload(row, projectId, issueType, assignee, reporter) ==
  LET storyPoints == StoryPoints(row) IN
  [fields |->
    [project |-> projectId,
     summary |-> row.Summary,
     description |-> IF Truthy(row.Description) THEN <<row.Description>> ELSE <<>>,
     issuetype |-> issueType.id,
     assignee |-> AccountId(assignee),
     reporter |-> AccountId(reporter),
     customfield_10016 |-> IF StoryPointsSet(storyPoints)
                           THEN Some(storyPoints[1].val) ELSE None,
     parent |-> IF issueType.subtask /\ Truthy(row.ParentKey)
                THEN Some(row.ParentKey) ELSE None,
     customfield_10011 |-> IF IsEpic(issueType) THEN Some(row.Summary) ELSE None]]

\* issuePayloads.filter(p => p !== null)
ValidPayloads(payloads) == Present(payloads)

(***************************************************************************)
(* The tracker's answers.                                                  *)
(***************************************************************************)
Response(kind, body) == [kind |-> kind, body |-> body]

IssueTypeResponses ==
  { Response("networkError", <<>>), Response("notOk", <<>>),
    Response("ok", ScenarioTypes), Response("ok", OtherTypes), Response("ok", <<>>) }

UserSearchResponses(email) ==
  { [kind |-> "networkError", users |-> <<>>], [kind |-> "notOk", users |-> <<>>],
    [kind |-> "ok", users |-> UserSearch(email)] }

RECURSIVE SortedSeq(_)
SortedSeq(S) ==
  IF S = {} THEN <<>>
  ELSE LET m == CHOOSE x \in S : \A y \in S : x <= y IN <<m>> \o SortedSeq(S \ {m})

ElementError(k) ==
  [failedElementNumber |-> k,
   elementErrors |-> [errorMessages |-> IF k = 0 THEN <<>> ELSE <<"Field is required.">>]]

BulkBody(issues, errors, errorMessages) ==
  [issues |-> issues, errors |-> errors, errorMessages |-> errorMessages]

\* POST /issue/bulk with n elements: the call fails, or it is answered with the
\* keys of the created elements and one error for each rejected element.
BulkResponses(n) ==
  { Response("networkError", BulkBody(<<>>, <<>>, <<>>)),
    Response("notOk", BulkBody(<<>>, <<>>, <<>>)),
    Response("notOk", BulkBody(<<>>, <<ElementError(0)>>, <<"Bad request.">>)) }
  \cup
  { Response("ok",
      BulkBody([j \in 1..(n - Cardinality(F)) |-> [key |-> SortedSeq((0..(n-1)) \ F)[j]]],
               [j \in 1..Cardinality(F) |-> ElementError(SortedSeq(F)[j])],
               <<>>)) : F \in SUBSET (0..(n-1)) }

(***************************************************************************)
(* Results of bulkCreateIssues.                                            *)
(***************************************************************************)
ErrorText(text, createdCount, failedCount, failures, specific) ==
  [text |-> text, createdCount |-> createdCount, failedCount |-> failedCount,
   failures |-> failures, specific |-> specific]

Result(success, error, details) ==
  [success |-> success, error |-> error, details |-> details]

\* { success: false, error: <text> }
Failure(text) == Result(FALSE, Some(ErrorText(<<text>>, None, None, <<>>, <<>>)), None)

\* Mutation of NoValidIssues: the fixed text whatever reasons were collected.
NoValidIssuesFixedText(failures) == Failure("No valid issues found in the file to import.")

\* validPayloads.length === 0: the skip reasons joined, or the fixed text.
NoValidIssues(failures) ==
  IF Len(failures) > 0
  THEN Result(FALSE, Some(ErrorText(<<>>, None, None, failures, <<>>)), None)
  ELSE Failure("No valid issues found in the file to import.")

\* Mutation of BulkNotOk: the non-OK answer is not cut short and its body is
\* reported like an OK answer.
BulkNotOkFallsThrough(errorBody) ==
  Result(FALSE,
         Some(ErrorText(<<"Import complete.">>, Some(Len(errorBody.issues)),
                        Some(Len(errorBody.errors)), <<>>, <<>>)),
         Some(errorBody))

\* !response.ok: errorMessages joined (or the fixed text) and the element errors.
BulkNotOk(errorBody) ==
  LET errorMessage == IF Len(errorBody.errorMessages) > 0 THEN errorBody.errorMessages
                      ELSE <<"An unknown error occurred during bulk creation.">>
      specificErrors == Concat([j \in 1..Len(errorBody.errors) |->
                                  errorBody.errors[j].elementErrors.errorMessages])
  IN Result(FALSE, Some(ErrorText(errorMessage, None, None, <<>>, specificErrors)), None)

\* Mutation of FailedIssueSummary: failedElementNumber is taken as counted
\* from 1.
FailedIssueSummaryFromOne(validPayloads, e) ==
  IF e.failedElementNumber \in 1..Len(validPayloads)
  THEN Some(validPayloads[e.failedElementNumber].fields.summary)
  ELSE None

\* validPayloads[e.failedElementNumber]?.fields?.summary
FailedIssueSummary(validPayloads, e) ==
  IF e.failedElementNumber + 1 \in 1..Len(validPayloads)
  THEN Some(validPayloads[e.failedElementNumber + 1].fields.summary)
  ELSE None

\* (result.errors || []).map(e => `Issue "${failedIssueSummary}": ${errorMessages}`)
ApiErrorDetails(validPayloads, errors) ==
  [j \in 1..Len(errors) |->
     ApiErrorMessage(FailedIssueSummary(validPayloads, errors[j]),
                     IF Len(errors[j].elementErrors.errorMessages) > 0
                     THEN errors[j].elementErrors.errorMessages
                     ELSE <<"An unspecified error occurred.">>)]

\* (result.errors?.length || 0) + issueCreationFailures.length
FailedCount(body, failures) == Len(body.errors) + Len(failures)

\* result.issues?.length || 0
CreatedCount(body) == Len(body.issues)

\* Mutation of ImportReport: the skip reasons are listed last row first.
ImportReportReversed(validPayloads, failures, body) ==
  IF FailedCount(body, failures) > 0
  THEN Result(FALSE,
              Some(ErrorText(<<"Import complete.">>, Some(CreatedCount(body)),
                             Some(FailedCount(body, failures)),
                             [j \in 1..Len(failures) |-> failures[Len(failures) + 1 - j]]
                               \o ApiErrorDetails(validPayloads, body.errors),
                             <<>>)),
              Some(body))
  ELSE Result(TRUE, None, Some(body))

\* The report after an OK answer of the batch-create call.
ImportReport(validPayloads, failures, body) ==
  IF FailedCount(body, failures) > 0
  THEN Result(FALSE,
              Some(ErrorText(<<"Import complete.">>, Some(CreatedCount(body)),
                             Some(FailedCount(body, failures)),
                             failures \o ApiErrorDetails(validPayloads, body.errors),
                             <<>>)),
              Some(body))
  ELSE Result(TRUE, None, Some(body))

(***************************************************************************)
(* State of one call of bulkCreateIssues.                                  *)
(***************************************************************************)
VARIABLES
  form,                   \* formData of the call
  pc,                     \* "start", "awaitIssueTypes", "awaitRows", "awaitBulk", "done"
  data,                   \* the parsed rows of the file
  issueTypesResult,       \* what getIssueTypesForProject returned
  requests,               \* the requests sent to the tracker so far, in order
  validIssueTypesMap,     \* lowercased name -> issue type of the project
  issueCreationFailures,  \* the skip reasons pushed by the row callbacks
  lookups,                \* per row: the assignee and the reporter lookup
  issuePayloads,          \* per row: the value its callback returned (None = null or not yet)
  overtook,               \* history: some row returned its payload while an earlier row
                          \* was still waiting for a user search
  validPayloads,          \* the payloads kept for the batch
  response,               \* the answer to the batch-create request
  result                  \* the value returned to the caller

\* The same import run a second time.
VARIABLES
  run,                    \* 1 or 2: which call of bulkCreateIssues this is
  firstRun                \* history: what the first call was answered and what it sent

importVars ==
  << form, pc, data, issueTypesResult, requests, validIssueTypesMap,
     issueCreationFailures, lookups, issuePayloads, overtook, validPayloads, response,
     result >>

\* login, logout and the middleware.
VARIABLES
  cookie,                 \* the browser's jira-auth cookie: None or Some(value)
  login,                  \* the last login call: where it is, its form, the answer of /myself
  loginState,             \* the State the last login call returned, None if it redirected
  redirected,             \* the redirect thrown by the last login or logout call
  served,                 \* the last page request: its path, its cookie, what it got
  sinceLogout             \* history: logout deleted the cookie and no login has set it since

\* The import dialog.
VARIABLES
  isOpen,                 \* the isOpen prop, kept by the parent
  selectedProjectId,
  file,
  isImporting,
  error,
  dialogCredentials,      \* the credentials prop
  inFlight                \* the bulkCreateIssues calls started and not yet returned

\* getIssuesForProject.
VARIABLES
  issuesPc,               \* "start", "awaitPage", "done"
  allIssues,
  startAt,
  isLast,
  fetches,                \* parity of the number of page requests sent
  issuesResult            \* the value returned

twiceVars == << run, firstRun >>

sessionVars == << cookie, login, loginState, redirected, served, sinceLogout >>

dialogVars ==
  << isOpen, selectedProjectId, file, isImporting, error, dialogCredentials, inFlight >>

issuesVars == << issuesPc, allIssues, startAt, isLast, fetches, issuesResult >>

\* What the steps of bulkCreateIssues leave alone.
otherVars == << twiceVars, sessionVars, dialogVars, issuesVars >>

vars == << importVars, otherVars >>

TwiceIdle == run = 1 /\ firstRun = None

\* Nobody is logged in and no login call was made.
SessionIdle ==
  /\ cookie = None
  /\ login = [pc |-> "idle", fields |-> None, answer |-> None]
  /\ loginState = None
  /\ redirected = None
  /\ served = None
  /\ sinceLogout = FALSE

\* useState(null), useState(null), useState(false), useState(null); closed.
DialogIdle ==
  /\ isOpen = FALSE
  /\ selectedProjectId = None
  /\ file = None
  /\ isImporting = FALSE
  /\ error = None
  /\ dialogCredentials = None
  /\ inFlight = 0

\* let allIssues = [], startAt = 0, isLast = false, before the call.
IssuesIdle ==
  /\ issuesPc = "start"
  /\ allIssues = <<>>
  /\ startAt = 0
  /\ isLast = FALSE
  /\ fetches = 0
  /\ issuesResult = None

Init ==
  /\ form \in Forms
  /\ pc = "start"
  /\ data = <<>>
  /\ issueTypesResult = None
  /\ requests = <<>>
  /\ validIssueTypesMap = <<>>
  /\ issueCreationFailures = <<>>
  /\ lookups = <<>>
  /\ issuePayloads = <<>>
  /\ overtook = FALSE
  /\ validPayloads = <<>>
  /\ response = None
  /\ result = None
  /\ TwiceIdle
  /\ SessionIdle
  /\ DialogIdle
  /\ IssuesIdle

credentials == JSONparse(form.credentials)[1]

\* return <value>: the call ends.
Return(value) ==
  /\ pc' = "done"
  /\ result' = Some(value)

\* Mutation of InputError: the headers of the sheet are not checked.
InputErrorNoHeaderCheck ==
  IF \/ ~IsSome(form.file) \/ ~Truthy(form.projectId)
     \/ ~Truthy(form.credentials) \/ ~Truthy(form.projectKey)
  THEN Some("Missing required data: file, project ID, project key, or credentials.")
  ELSE IF ~IsSome(JSONparse(form.credentials))
  THEN Some("Invalid credentials format.")
  ELSE IF ~form.file[1].readable
  THEN Some("Failed to parse the uploaded file. Please ensure it's a valid CSV or Excel file.")
  ELSE IF Len(form.file[1].rows) = 0
  THEN Some("The uploaded file is empty or could not be read.")
  ELSE None

\* The checks of the form, the credentials, the file and its headers; None
\* when the call goes on to the tracker.
InputError ==
  IF \/ ~IsSome(form.file) \/ ~Truthy(form.projectId)
     \/ ~Truthy(form.credentials) \/ ~Truthy(form.projectKey)
  THEN Some("Missing required data: file, project ID, project key, or credentials.")
  ELSE IF ~IsSome(JSONparse(form.credentials))
  THEN Some("Invalid credentials format.")
  ELSE IF ~form.file[1].readable
  THEN Some("Failed to parse the uploaded file. Please ensure it's a valid CSV or Excel file.")
  ELSE IF Len(form.file[1].rows) = 0
  THEN Some("The uploaded file is empty or could not be read.")
  ELSE IF "Summary" \notin form.file[1].headers
  THEN Some("Missing required header: Summary. Please use the template.")
  ELSE IF "Issue Type" \notin form.file[1].headers
  THEN Some("Missing required header: Issue Type. Please use the template.")
  ELSE None

\* The call gets as far as data = xlsx.utils.sheet_to_json(worksheet): the form
\* is complete, the credentials parse and the file can be read.  The checks
\* for an empty sheet and for the required headers come after the assignment.
SheetParsed ==
  /\ IsSome(form.file) /\ Truthy(form.projectId)
  /\ Truthy(form.credentials) /\ Truthy(form.projectKey)
  /\ IsSome(JSONparse(form.credentials))
  /\ form.file[1].readable

\* bulkCreateIssues up to the request of getIssueTypesForProject.
Begin ==
  /\ pc = "start"
  /\ IF IsSome(InputError)
     THEN /\ Return(Failure(InputError[1]))
          /\ data' = IF SheetParsed THEN form.file[1].rows ELSE data
          /\ UNCHANGED requests
     ELSE /\ pc' = "awaitIssueTypes"
          /\ data' = form.file[1].rows
          /\ requests' = Append(requests, IssueTypeRequest(form.projectId))
          /\ UNCHANGED result
  /\ UNCHANGED << form, issueTypesResult, validIssueTypesMap, issueCreationFailures,
                  lookups, issuePayloads, overtook, validPayloads, response >>
  /\ UNCHANGED otherVars

\* getIssueTypesForProject after its fetch: the error it returns, if any.
IssueTypesError(resp) ==
  CASE resp.kind = "networkError" -> Some("Could not connect to Jira to fetch issue types.")
    [] resp.kind = "notOk" ->
         Some("Failed to fetch issue types. Your token might have expired or lacks permissions.")
    [] OTHER -> None

\* getIssueTypesForProject after its fetch: { issueTypes } or { error }.
getIssueTypesForProjectReturn(resp) ==
  IF IsSome(IssueTypesError(resp))
  THEN [issueTypes |-> None, error |-> IssueTypesError(resp)]
  ELSE [issueTypes |-> Some(resp.body), error |-> None]

\* issueTypesResult.error || !issueTypesResult.issueTypes (an empty array is
\* truthy).
ConfigFetchFailed(r) == IsSome(r.error) \/ ~IsSome(r.issueTypes)

\* The message of the Error thrown then.
ConfigFetchMessage(r) ==
  IF IsSome(r.error) THEN r.error[1]
  ELSE "Could not fetch project configuration (issue types). Please ensure the project exists and you have permissions."

\* Some row has its payload while an earlier row still waits for the tracker.
Overtaking(lks, payloads) ==
  \E i \in 1..Len(lks) : IsSome(payloads[i]) /\ \E j \in 1..(i - 1) : ~Settled(lks[j])

\* The payload of row i once its lookups are settled.
RowPayload(i, map, lk) ==
  BuildPayload(data[i], form.projectId, LookupIssueType(data[i], map)[1],
               lk.assignee.user, lk.reporter.user)

\* Mutation of AfterRows: one create request per valid payload instead of one
\* batch.
AfterRowsOneRequestEach(payloads, failures, sent) ==
  LET valid == ValidPayloads(payloads) IN
  /\ validPayloads' = valid
  /\ IF Len(valid) = 0
     THEN /\ Return(NoValidIssues(failures))
          /\ requests' = sent
     ELSE /\ pc' = "awaitBulk"
          /\ requests' = sent \o [k \in 1..Len(valid) |-> BulkRequest(<<valid[k]>>)]
          /\ UNCHANGED result

\* Mutation of AfterRows: the batch-create request is sent even when no row is
\* valid.
AfterRowsAlwaysSend(payloads, failures, sent) ==
  /\ validPayloads' = ValidPayloads(payloads)
  /\ pc' = "awaitBulk"
  /\ requests' = Append(sent, BulkRequest(ValidPayloads(payloads)))
  /\ UNCHANGED result

\* Mutation of AfterRows: a payload the tracker has already received in an
\* earlier batch-create request is left out of the batch, as an importer that
\* asks the tracker for duplicates before creating would do.
AfterRowsDropAlreadySent(payloads, failures, sent) ==
  LET AlreadySent(p) ==
        \E j \in 1..Len(sent) :
          /\ sent[j].path = "/issue/bulk"
          /\ \E k \in 1..Len(sent[j].body) : sent[j].body[k] = p
      Fresh(p) == ~AlreadySent(p)
      valid == SelectSeq(ValidPayloads(payloads), Fresh)
  IN
  /\ validPayloads' = valid
  /\ IF Len(valid) = 0
     THEN /\ Return(NoValidIssues(failures))
          /\ requests' = sent
     ELSE /\ pc' = "awaitBulk"
          /\ requests' = Append(sent, BulkRequest(valid))
          /\ UNCHANGED result

\* What follows the joint await of the row callbacks: the early return when no
\* row is valid, else the batch-create request.
AfterRows(payloads, failures, sent) ==
  LET valid == ValidPayloads(payloads) IN
  /\ validPayloads' = valid
  /\ IF Len(valid) = 0
     THEN /\ Return(NoValidIssues(failures))
          /\ requests' = sent
     ELSE /\ pc' = "awaitBulk"
          /\ requests' = Append(sent, BulkRequest(valid))
          /\ UNCHANGED result

\* The answer to the issue-type request, then every row callback up to its
\* first await (validation, skip reasons, user-search requests), in row order.
IssueTypesResponse(resp) ==
  /\ pc = "awaitIssueTypes"
  /\ issueTypesResult' = Some(getIssueTypesForProjectReturn(resp))
  /\ IF ConfigFetchFailed(getIssueTypesForProjectReturn(resp))
     THEN /\ Return(Failure(ConfigFetchMessage(getIssueTypesForProjectReturn(resp))))
          /\ UNCHANGED << requests, validIssueTypesMap, issueCreationFailures, lookups,
                          issuePayloads, overtook, validPayloads >>
     ELSE LET map == BuildIssueTypesMap(getIssueTypesForProjectReturn(resp).issueTypes[1])
              n == Len(data)
              verdict == [i \in 1..n |-> ValidateRow(data[i], i - 1, map)]
              failures == Concat([i \in 1..n |-> verdict[i].failure])
              lks == [i \in 1..n |->
                        IF verdict[i].skip THEN NoLookups
                        ELSE [assignee |-> AssigneeLookup(data[i]),
                              reporter |-> ReporterLookup(data[i], credentials.email)]]
              sent == requests \o Concat([i \in 1..n |-> LookupRequests(lks[i])])
              payloads == [i \in 1..n |->
                             IF ~verdict[i].skip /\ Settled(lks[i])
                             THEN Some(RowPayload(i, map, lks[i])) ELSE None]
          IN /\ validIssueTypesMap' = map
             /\ issueCreationFailures' = failures
             /\ lookups' = lks
             /\ issuePayloads' = payloads
             /\ overtook' = Overtaking(lks, payloads)
             /\ IF \A i \in 1..n : Settled(lks[i])
                THEN AfterRows(payloads, failures, sent)
                ELSE /\ pc' = "awaitRows"
                     /\ requests' = sent
                     /\ UNCHANGED << validPayloads, result >>
  /\ UNCHANGED << form, data, response >>
  /\ UNCHANGED otherVars

\* The answer to one user search of row i; the row's payload once both of its
\* lookups are settled; the batch-create request once every row is.
UserSearchResponse(i, who, resp) ==
  /\ pc = "awaitRows"
  /\ i \in 1..Len(data)
  /\ lookups[i][who].st = "pending"
  /\ LET email == lookups[i][who].email
         user == findUserByEmailReturn(email, resp)
         lks == [lookups EXCEPT ![i][who] = Lookup("done", email, user)]
         payloads == IF Settled(lks[i])
                     THEN [issuePayloads EXCEPT
                             ![i] = Some(RowPayload(i, validIssueTypesMap, lks[i]))]
                     ELSE issuePayloads
     IN /\ lookups' = lks
        /\ issuePayloads' = payloads
        /\ overtook' = (overtook \/ Overtaking(lks, payloads))
        /\ IF \A j \in 1..Len(data) : Settled(lks[j])
           THEN AfterRows(payloads, issueCreationFailures, requests)
           ELSE UNCHANGED << pc, requests, validPayloads, result >>
  /\ UNCHANGED << form, data, issueTypesResult, validIssueTypesMap,
                  issueCreationFailures, response >>
  /\ UNCHANGED otherVars

\* Mutation of BulkResponse: after a network error the batch-create request is
\* sent once more.
BulkResponseRetry(resp) ==
  /\ pc = "awaitBulk"
  /\ IF resp.kind = "networkError" /\ Len(requests) < 2 * MaxRows + 2
     THEN /\ requests' = Append(requests, BulkRequest(validPayloads))
          /\ UNCHANGED << pc, response, result >>
     ELSE /\ response' = Some(resp)
          /\ Return(CASE resp.kind = "networkError" -> Failure("fetch failed")
                      [] resp.kind = "notOk" -> BulkNotOk(resp.body)
                      [] OTHER -> ImportReport(validPayloads, issueCreationFailures, resp.body))
          /\ UNCHANGED requests
  /\ UNCHANGED << form, data, issueTypesResult, validIssueTypesMap,
                  issueCreationFailures, lookups, issuePayloads, overtook, validPayloads >>
  /\ UNCHANGED otherVars

\* The answer to the batch-create request.
BulkResponse(resp) ==
  /\ pc = "awaitBulk"
  /\ response' = Some(resp)
  /\ Return(CASE resp.kind = "networkError" -> Failure("fetch failed")
              [] resp.kind = "notOk" -> BulkNotOk(resp.body)
              [] OTHER -> ImportReport(validPayloads, issueCreationFailures, resp.body))
  /\ UNCHANGED << form, data, issueTypesResult, requests, validIssueTypesMap,
                  issueCreationFailures, lookups, issuePayloads, overtook, validPayloads >>
  /\ UNCHANGED otherVars

Next ==
  \/ Begin
  \/ \E resp \in IssueTypeResponses : IssueTypesResponse(resp)
  \/ /\ pc = "awaitRows"
     /\ \E i \in 1..Len(lookups), who \in {"assignee", "reporter"} :
          \E resp \in UserSearchResponses(lookups[i][who].email) :
            UserSearchResponse(i, who, resp)
  \/ /\ pc = "awaitBulk"
     /\ \E resp \in BulkResponses(Len(validPayloads)) : BulkResponse(resp)

Spec == Init /\ [][Next]_vars

(***************************************************************************)
(* The identical import run twice: bulkCreateIssues keeps nothing between  *)
(* two calls, every variable of a call is local to it.                     *)
(***************************************************************************)
TwiceForms ==
  { GoodForm(<<RowStory>>), GoodForm(<<RowBug, RowStory>>),
    GoodForm(<<RowEpic, RowNoSummary>>),
    GoodForm(<<RowSubtask, RowOrphanSubtask, RowStory>>) }

IsBulkRequest(r) == r.path = "/issue/bulk"

\* What is remembered of the first call, for comparison: what the tracker
\* answered, the batch-create requests sent, the issues created, and how many
\* requests the tracker had received when the call returned.
FirstRunRecord ==
  [types |-> issueTypesResult, lookups |-> lookups,
   batches |-> SelectSeq(requests, IsBulkRequest),
   created |-> IF IsSome(response) /\ response[1].kind = "ok"
               THEN Len(response[1].body.issues) ELSE 0,
   sent |-> Len(requests)]

\* The same form is submitted again after the first call returned: a new
\* invocation of bulkCreateIssues.  Its locals are its own, none of the first
\* call's values exists in it; what the tracker has received stays received.
Again ==
  /\ pc = "done"
  /\ run = 1
  /\ run' = 2
  /\ firstRun' = Some(FirstRunRecord)
  /\ pc' = "start"
  /\ data' = <<>>
  /\ issueTypesResult' = None
  /\ validIssueTypesMap' = <<>>
  /\ issueCreationFailures' = <<>>
  /\ lookups' = <<>>
  /\ issuePayloads' = <<>>
  /\ overtook' = FALSE
  /\ validPayloads' = <<>>
  /\ response' = None
  /\ result' = None
  /\ UNCHANGED << form, requests >>
  /\ UNCHANGED << sessionVars, dialogVars, issuesVars >>

InitTwice == Init /\ form \in TwiceForms

NextTwice == Next \/ Again

SpecTwice == InitTwice /\ [][NextTwice]_vars

(***************************************************************************)
(* login, logout, the middleware and the dashboard page.                   *)
(***************************************************************************)
\* z.string().email()
ZodEmail(s) == s \in {"me@x.io", "al@x.io"}

\* domain.startsWith('http')
StartsWithHttp(s) == s \in {"https://acme.atlassian.net", "http://acme.atlassian.net"}

\* The forms submitted to login.
LoginForms ==
  [email : {"me@x.io", "not-an-email"},
   domain : {"acme.atlassian.net", "https://acme.atlassian.net", ""},
   apiToken : {"t0k", ""}]

\* FormSchema.safeParse(...): the fields with an error, none when it succeeds.
FieldErrors(fd) ==
  (IF ZodEmail(fd.email) THEN {} ELSE {"email"})
  \cup (IF fd.domain = "" \/ StartsWithHttp(fd.domain) THEN {"domain"} ELSE {})
  \cup (IF fd.apiToken = "" THEN {"apiToken"} ELSE {})

\* JSON.stringify(credentials)
JSONstringify(c) ==
  IF c = [email |-> "me@x.io", domain |-> "acme.atlassian.net", apiToken |-> "t0k"]
  THEN ValidCredentialsString
  ELSE "{email:?,domain:?,apiToken:?}"

\* The State login returns when it does not redirect.
LoginError(fieldErrors, api, message) ==
  [fieldErrors |-> fieldErrors, api |-> api, message |-> message]

\* GET /rest/api/3/myself: OK, non-OK with or without a JSON body of
\* errorMessages, a thrown Error, something else thrown.
MyselfResponses ==
  { [kind |-> "ok", errorMessages |-> <<>>],
    [kind |-> "notOk", errorMessages |-> <<"Unauthorized">>],
    [kind |-> "notOk", errorMessages |-> <<>>],
    [kind |-> "networkError", errorMessages |-> <<>>],
    [kind |-> "thrown", errorMessages |-> <<>>] }

\* What login does with the answer of /myself: the cookie it sets, the State
\* it returns, the redirect it throws.
Effect(setCookie, state, redirect) ==
  [setCookie |-> setCookie, state |-> state, redirect |-> redirect]

\* Mutation of loginAfterFetch: the cookie is set before response.ok is
\* looked at.
loginAfterFetchCookieFirst(c, resp) ==
  CASE resp.kind = "ok" -> Effect(Some(JSONstringify(c)), None, Some("/dashboard"))
    [] resp.kind = "notOk" ->
         Effect(Some(JSONstringify(c)),
                Some(LoginError({},
                       IF Len(resp.errorMessages) > 0 THEN resp.errorMessages
                       ELSE <<"Invalid credentials. Please check your domain, email, or API token.">>,
                       "")),
                None)
    [] resp.kind = "networkError" ->
         Effect(None,
                Some(LoginError({}, <<"Failed to connect to Jira. Please ensure the domain is correct and you're connected to the internet.">>, "")),
                None)
    [] OTHER -> Effect(None, Some(LoginError({}, <<"An unknown error occurred.">>, "")), None)

loginAfterFetch(c, resp) ==
  CASE resp.kind = "ok" -> Effect(Some(JSONstringify(c)), None, Some("/dashboard"))
    [] resp.kind = "notOk" ->
         Effect(None,
                Some(LoginError({},
                       IF Len(resp.errorMessages) > 0 THEN resp.errorMessages
                       ELSE <<"Invalid credentials. Please check your domain, email, or API token.">>,
                       "")),
                None)
    [] resp.kind = "networkError" ->
         Effect(None,
                Some(LoginError({}, <<"Failed to connect to Jira. Please ensure the domain is correct and you're connected to the internet.">>, "")),
                None)
    [] OTHER -> Effect(None, Some(LoginError({}, <<"An unknown error occurred.">>, "")), None)

\* login up to its fetch of /myself: the field errors returned at once, or the
\* request in flight.
LoginSubmit(fd) ==
  /\ login.pc /= "awaitMyself"
  /\ IF FieldErrors(fd) /= {}
     THEN /\ login' = [pc |-> "done", fields |-> Some(fd), answer |-> None]
          /\ loginState' =
               Some(LoginError(FieldErrors(fd), <<>>,
                               "Invalid fields. Please correct the errors and try again."))
          /\ redirected' = None
     ELSE /\ login' = [pc |-> "awaitMyself", fields |-> Some(fd), answer |-> None]
          /\ UNCHANGED << loginState, redirected >>
  /\ UNCHANGED << cookie, served, sinceLogout >>
  /\ UNCHANGED << importVars, twiceVars, dialogVars, issuesVars >>

\* The rest of login, given the answer of /myself.
MyselfResponse(resp) ==
  /\ login.pc = "awaitMyself"
  /\ LET e == loginAfterFetch(login.fields[1], resp) IN
     /\ login' = [login EXCEPT !.pc = "done", !.answer = Some(resp.kind)]
     /\ cookie' = IF IsSome(e.setCookie) THEN e.setCookie ELSE cookie
     /\ sinceLogout' = IF IsSome(e.setCookie) THEN FALSE ELSE sinceLogout
     /\ loginState' = e.state
     /\ redirected' = e.redirect
  /\ UNCHANGED served
  /\ UNCHANGED << importVars, twiceVars, dialogVars, issuesVars >>

\* cookies().delete('jira-auth'); redirect('/')
logout ==
  /\ cookie' = None
  /\ sinceLogout' = TRUE
  /\ redirected' = Some("/")
  /\ UNCHANGED << login, loginState, served >>
  /\ UNCHANGED << importVars, twiceVars, dialogVars, issuesVars >>

\* The paths the middleware is run for: matcher ['/', '/dashboard/:path*'].
Paths == {"/", "/dashboard", "/dashboard/issues"}

\* pathname.startsWith('/dashboard')
StartsWithDashboard(path) == path \in {"/dashboard", "/dashboard/issues"}

\* Mutation of middleware: the dashboard is not guarded.
middlewareNoGuard(authCookie, pathname) ==
  IF IsSome(authCookie) /\ pathname = "/" THEN "redirect:/dashboard" ELSE "next"

\* middleware(request): a redirect, or NextResponse.next().
middleware(authCookie, pathname) ==
  IF ~IsSome(authCookie) /\ StartsWithDashboard(pathname) THEN "redirect:/"
  ELSE IF IsSome(authCookie) /\ pathname = "/" THEN "redirect:/dashboard"
  ELSE "next"

\* DashboardPage before it fetches: redirect('/') without a cookie value or
\* with one that is not JSON.
DashboardPage(authCookie) ==
  IF ~IsSome(authCookie) \/ ~Truthy(authCookie[1]) THEN "redirect:/"
  ELSE IF ~IsSome(JSONparse(authCookie[1])) THEN "redirect:/"
  ELSE "page"

\* A page request of the browser, with its cookie: the middleware, then the
\* page.
PageRequest(path) ==
  /\ served' =
       Some([path |-> path, cookie |-> cookie, afterLogout |-> sinceLogout,
             outcome |-> IF middleware(cookie, path) /= "next" THEN middleware(cookie, path)
                         ELSE IF path = "/dashboard" THEN DashboardPage(cookie)
                         ELSE "page"])
  /\ UNCHANGED << cookie, login, loginState, redirected, sinceLogout >>
  /\ UNCHANGED << importVars, twiceVars, dialogVars, issuesVars >>

\* maxAge: the cookie is dropped by the browser after a week.
CookieExpires ==
  /\ IsSome(cookie)
  /\ cookie' = None
  /\ UNCHANGED << login, loginState, redirected, served, sinceLogout >>
  /\ UNCHANGED << importVars, twiceVars, dialogVars, issuesVars >>

InitSession ==
  /\ form = GoodForm(<<RowStory>>)
  /\ Init

NextSession ==
  \/ \E fd \in LoginForms : LoginSubmit(fd)
  \/ \E resp \in MyselfResponses : MyselfResponse(resp)
  \/ logout
  \/ \E path \in Paths : PageRequest(path)
  \/ CookieExpires

SpecSession == InitSession /\ [][NextSession]_vars

(***************************************************************************)
(* ImportIssuesDialog: the state of the component, the events of the user  *)
(* and the return of the calls it started.                                 *)
(***************************************************************************)
MaxCalls == 3

ProjectIds == {"10400", "10401", "10402"}

\* The files the user picks: one the type check accepts, one it rejects.
PickedFiles == {"issues.csv", "notes.txt"}

\* validTypes.includes(fileType) || name.endsWith('.csv') || ...
ValidFile(f) == f = "issues.csv"

\* The parent opens the dialog.
OpenDialog ==
  /\ ~isOpen
  /\ isOpen' = TRUE
  /\ UNCHANGED << selectedProjectId, file, isImporting, error, dialogCredentials, inFlight >>
  /\ UNCHANGED << importVars, twiceVars, sessionVars, issuesVars >>

\* onValueChange of the project select.
setSelectedProjectId(p) ==
  /\ isOpen
  /\ selectedProjectId' = Some(p)
  /\ UNCHANGED << isOpen, file, isImporting, error, dialogCredentials, inFlight >>
  /\ UNCHANGED << importVars, twiceVars, sessionVars, issuesVars >>

handleFileChange(f) ==
  /\ isOpen
  /\ IF ValidFile(f)
     THEN file' = Some(f) /\ error' = None
     ELSE file' = None /\ error' = Some("Please select a valid CSV or Excel file.")
  /\ UNCHANGED << isOpen, selectedProjectId, isImporting, dialogCredentials, inFlight >>
  /\ UNCHANGED << importVars, twiceVars, sessionVars, issuesVars >>

\* resetState(); onClose(): Cancel, Escape or a click outside.
handleClose ==
  /\ isOpen
  /\ selectedProjectId' = None
  /\ file' = None
  /\ isImporting' = FALSE
  /\ error' = None
  /\ isOpen' = FALSE
  /\ UNCHANGED << dialogCredentials, inFlight >>
  /\ UNCHANGED << importVars, twiceVars, sessionVars, issuesVars >>

\* disabled={!selectedProjectId || !file || isImporting}
ImportDisabled == ~IsSome(selectedProjectId) \/ ~IsSome(file) \/ isImporting

\* A click on the Import button: handleImport up to its await.
handleImport ==
  /\ isOpen
  /\ ~ImportDisabled
  /\ inFlight < MaxCalls
  /\ IF ~IsSome(selectedProjectId) \/ ~IsSome(file) \/ ~IsSome(dialogCredentials)
     THEN /\ error' = Some("Please select a project and a file to import.")
          /\ UNCHANGED << isImporting, inFlight >>
     ELSE /\ isImporting' = TRUE
          /\ error' = None
          /\ inFlight' = inFlight + 1
  /\ UNCHANGED << isOpen, selectedProjectId, file, dialogCredentials >>
  /\ UNCHANGED << importVars, twiceVars, sessionVars, issuesVars >>

\* What a bulkCreateIssues call gives back to handleImport.
CallOutcomes == {"success", "failure", "failureNoText", "throws"}

\* The rest of handleImport when one of its calls returns: the toast and
\* handleClose, or the error shown; finally setIsImporting(false).
ImportReturns(outcome) ==
  /\ inFlight > 0
  /\ inFlight' = inFlight - 1
  /\ isImporting' = FALSE
  /\ IF outcome = "success"
     THEN /\ selectedProjectId' = None
          /\ file' = None
          /\ error' = None
          /\ isOpen' = FALSE
     ELSE /\ error' = Some(CASE outcome = "failure" -> "Import failed."
                            [] outcome = "failureNoText" ->
                                 "An unknown error occurred during import."
                            [] OTHER -> "Failed to read the file or connect to the server.")
          /\ UNCHANGED << isOpen, selectedProjectId, file >>
  /\ UNCHANGED dialogCredentials
  /\ UNCHANGED << importVars, twiceVars, sessionVars, issuesVars >>

InitDialog ==
  /\ form = GoodForm(<<RowStory>>)
  /\ pc = "start"
  /\ data = <<>>
  /\ issueTypesResult = None
  /\ requests = <<>>
  /\ validIssueTypesMap = <<>>
  /\ issueCreationFailures = <<>>
  /\ lookups = <<>>
  /\ issuePayloads = <<>>
  /\ overtook = FALSE
  /\ validPayloads = <<>>
  /\ response = None
  /\ result = None
  /\ TwiceIdle
  /\ SessionIdle
  /\ IssuesIdle
  /\ isOpen = FALSE
  /\ selectedProjectId = None
  /\ file = None
  /\ isImporting = FALSE
  /\ error = None
  /\ dialogCredentials \in {None, Some(ValidCredentialsString)}
  /\ inFlight = 0

NextDialog ==
  \/ OpenDialog
  \/ \E p \in ProjectIds : setSelectedProjectId(p)
  \/ \E f \in PickedFiles : handleFileChange(f)
  \/ handleClose
  \/ handleImport
  \/ \E outcome \in CallOutcomes : ImportReturns(outcome)

SpecDialog == InitDialog /\ [][NextDialog]_vars

(***************************************************************************)
(* getIssuesForProject: the paging loop over /rest/api/3/search.           *)
(***************************************************************************)
MaxPage == 2

MaxTotal == 4

\* An issue as the tracker returns it, and as the function maps it
\* (customfield_10020: issue.fields.customfield_10020 || []).
RawIssue(key, sprints) == [key |-> key, customfield_10020 |-> sprints]

MapIssue(issue) ==
  [key |-> issue.key,
   customfield_10020 |-> IF IsSome(issue.customfield_10020)
                         THEN issue.customfield_10020[1] ELSE <<>>]

\* The answers to the page request with a given startAt: a failure, or a page
\* of up to MaxPage issues with the total the tracker reports.
PageResponses(from) ==
  { [kind |-> "networkError", issues |-> <<>>, total |-> 0],
    [kind |-> "notOk", issues |-> <<>>, total |-> 0] }
  \cup
  { [kind |-> "ok",
     issues |-> [j \in 1..k |-> RawIssue(from + j, sprints[j])],
     total |-> t] :
       k \in 0..MaxPage, t \in 0..MaxTotal,
       sprints \in [1..MaxPage -> {None, Some(<<"Sprint 1">>)}] }

IssuesReturn(issues, err) == [issues |-> issues, error |-> err]

\* getIssuesForProject up to its first fetch.
GetIssuesBegin(creds) ==
  /\ issuesPc = "start"
  /\ IF ~IsSome(creds)
     THEN /\ issuesPc' = "done"
          /\ issuesResult' = Some(IssuesReturn(None, Some("Authentication required.")))
          /\ UNCHANGED fetches
     ELSE /\ issuesPc' = "awaitPage"
          /\ fetches' = 1 - fetches
          /\ UNCHANGED issuesResult
  /\ UNCHANGED << allIssues, startAt, isLast >>
  /\ UNCHANGED << importVars, twiceVars, sessionVars, dialogVars >>

\* One turn of the loop, given the answer to its fetch: return on a failure,
\* else concat the page, advance startAt, and fetch again unless isLast.
PageResponse(resp) ==
  /\ issuesPc = "awaitPage"
  /\ IF resp.kind = "networkError"
     THEN /\ issuesPc' = "done"
          /\ issuesResult' =
               Some(IssuesReturn(None, Some("Could not connect to Jira to fetch issues.")))
          /\ UNCHANGED << allIssues, startAt, isLast, fetches >>
     ELSE IF resp.kind = "notOk"
     THEN /\ issuesPc' = "done"
          /\ issuesResult' = Some(IssuesReturn(None, Some("Failed to fetch issues.")))
          /\ UNCHANGED << allIssues, startAt, isLast, fetches >>
     ELSE LET issues == [j \in 1..Len(resp.issues) |-> MapIssue(resp.issues[j])]
              next == startAt + Len(resp.issues)
          IN /\ allIssues' = allIssues \o issues
             /\ startAt' = next
             /\ isLast' = (next >= resp.total)
             /\ IF next >= resp.total
                THEN /\ issuesPc' = "done"
                     /\ issuesResult' = Some(IssuesReturn(Some(allIssues \o issues), None))
                     /\ UNCHANGED fetches
                ELSE /\ fetches' = 1 - fetches
                     /\ UNCHANGED << issuesPc, issuesResult >>
  /\ UNCHANGED << importVars, twiceVars, sessionVars, dialogVars >>

InitIssues ==
  /\ form = GoodForm(<<RowStory>>)
  /\ Init

NextIssues ==
  \/ \E creds \in {None, JSONparse(ValidCredentialsString)} : GetIssuesBegin(creds)
  \/ \E resp \in PageResponses(startAt) : PageResponse(resp)

\* The server runs the call on: every fetch is answered and every answer
\* handled.
FairSpecIssues == InitIssues /\ [][NextIssues]_vars /\ WF_vars(NextIssues)

(***************************************************************************)
(* Vocabulary of the properties, stated on the inputs and the observable   *)
(* state rather than with the operators of the import itself.              *)
(***************************************************************************)
Rows == 1..Len(data)

\* The issue-type map has been built and every row callback has run its
\* validation.
RowsProcessed == Len(data) > 0 /\ Len(lookups) = Len(data)

\* Every row callback has returned.
AllRowsSettled == RowsProcessed /\ \A i \in Rows : Settled(lookups[i])

\* The issue types resolved for the project.
ProjectTypes == {validIssueTypesMap[j].value : j \in 1..Len(validIssueTypesMap)}

\* The types whose name is the row's Issue Type cell, letter case and
\* surrounding blanks aside.
ResolvedTypes(i) ==
  {t \in ProjectTypes : toLowerCase(t.name) = toLowerCase(trim(data[i].IssueType))}

MissingRequired(i) == data[i].Summary = "" \/ data[i].IssueType = ""

OrphanSubtask(i) == (\E t \in ResolvedTypes(i) : t.subtask) /\ data[i].ParentKey = ""

PassesValidation(i) == ~MissingRequired(i) /\ ResolvedTypes(i) /= {} /\ ~OrphanSubtask(i)

\* Row i ended without a payload.
Skipped(i) == RowsProcessed /\ Settled(lookups[i]) /\ ~IsSome(issuePayloads[i])

BulkRequests == {j \in 1..Len(requests) : requests[j].path = "/issue/bulk"}

\* The rows with a payload, in ascending order.
SubmittedRows == SortedSeq({i \in Rows : IsSome(issuePayloads[i])})

\* Every batch sent holds exactly the payloads of the rows in SubmittedRows,
\* one per row, in row order.
BatchesHoldSubmittedRows ==
  \A j \in BulkRequests :
    requests[j].body = [k \in 1..Len(SubmittedRows) |-> issuePayloads[SubmittedRows[k]][1]]

BulkAnswered(kinds) == pc = "done" /\ IsSome(response) /\ response[1].kind \in kinds

ReportedCreated ==
  IF IsSome(result[1].error) /\ IsSome(result[1].error[1].createdCount)
  THEN result[1].error[1].createdCount[1]
  ELSE Len(response[1].body.issues)

\* failedCount of the report; a successful report has none failed.
ReportedFailed ==
  IF IsSome(result[1].error) /\ IsSome(result[1].error[1].failedCount)
  THEN result[1].error[1].failedCount[1]
  ELSE 0

ReportedReasons == IF IsSome(result[1].error) THEN result[1].error[1].failures ELSE <<>>

IsApiError(m) == m.kind = "ApiError"

(***************************************************************************)
(* The claims.                                                             *)
(***************************************************************************)

\* C1: every data row whose Summary or Issue Type cell is empty ends Skipped,
\* and no batch-create request holds a payload built from it.
C1_RequiredCellsSkip ==
  RowsProcessed =>
    \A i \in Rows : MissingRequired(i) =>
      /\ Skipped(i)
      /\ BatchesHoldSubmittedRows
      /\ \A k \in 1..Len(SubmittedRows) : SubmittedRows[k] /= i

C1_Witness ==
  /\ BulkAnswered({"ok"})
  /\ \E i \in Rows : data[i].Summary = "" /\ Skipped(i)
  /\ \E i \in Rows : data[i].IssueType = "" /\ Skipped(i)
  /\ BulkRequests /= {}

\* C2: after an OK batch answer with N keys and M element failures, the report
\* has createdCount = N and failedCount = M + the rows skipped by any rule.
C2_FailedCountCountsEverySkip ==
  BulkAnswered({"ok"}) =>
    /\ ReportedCreated = Len(response[1].body.issues)
    /\ ReportedFailed =
         Len(response[1].body.errors) + Cardinality({i \in Rows : Skipped(i)})

\* C3: the message of every element failure names the Summary of the original
\* row behind the failedElementNumber-th submitted payload, and carries no
\* index.
C3_FailureNamesOriginalSummary ==
  BulkAnswered({"ok"}) =>
    LET errors == response[1].body.errors
        details == SelectSeq(ReportedReasons, IsApiError)
    IN /\ Len(details) = Len(errors)
       /\ \A j \in 1..Len(errors) :
            /\ details[j].summary =
                 Some(data[SubmittedRows[errors[j].failedElementNumber + 1]].Summary)
            /\ details[j].rowNum = None

C3_Witness ==
  /\ BulkAnswered({"ok"})
  /\ \E j \in 1..Len(response[1].body.errors) :
       LET k == response[1].body.errors[j].failedElementNumber + 1 IN
       /\ SubmittedRows[k] > k
       /\ \E i \in Rows : i > SubmittedRows[k] /\ Skipped(i)

\* C4: a row whose Issue Type matches no resolved type name, letter case aside,
\* is skipped with a reason that includes every valid type name of the project.
C4_ReasonListsEveryTypeName ==
  RowsProcessed =>
    \A i \in Rows :
      ~(\E t \in ProjectTypes : toLowerCase(t.name) = toLowerCase(data[i].IssueType)) =>
        /\ Skipped(i)
        /\ \E j \in 1..Len(issueCreationFailures) :
             /\ issueCreationFailures[j].kind = "InvalidIssueType"
             /\ issueCreationFailures[j].issueType = data[i].IssueType
             /\ \A t \in ProjectTypes : t.name \in Range(issueCreationFailures[j].validNames)

\* C5: a row whose resolved type is a sub-task type and whose Parent Key is
\* empty is Skipped and is in no batch, whatever its other cells.
C5_OrphanSubtaskSkipped ==
  RowsProcessed =>
    \A i \in Rows : OrphanSubtask(i) =>
      /\ Skipped(i)
      /\ BatchesHoldSubmittedRows
      /\ \A k \in 1..Len(SubmittedRows) : SubmittedRows[k] /= i

C5_Witness ==
  /\ BulkAnswered({"ok"})
  /\ \E i \in Rows :
       OrphanSubtask(i) /\ ~MissingRequired(i) /\ data[i].IssueType = "Story" /\ Skipped(i)
  /\ \E i \in Rows : OrphanSubtask(i) /\ MissingRequired(i) /\ Skipped(i)
  /\ BulkRequests /= {}

EpicSpellings == {"Epic", "EPIC", "epic", "ePIC", "EPic"}

\* C6: a validated row gets the epic-name field, equal to its Summary, exactly
\* when the name of its resolved type is "Epic" in some letter case.
C6_EpicNameField ==
  RowsProcessed =>
    \A i \in Rows : IsSome(issuePayloads[i]) =>
      /\ ResolvedTypes(i) /= {}
      /\ \A t \in ResolvedTypes(i) :
           issuePayloads[i][1].fields.customfield_10011 =
             IF t.name \in EpicSpellings THEN Some(data[i].Summary) ELSE None

C6_Witness ==
  /\ pc = "awaitBulk"
  /\ \E k \in 1..Len(validPayloads) :
       validPayloads[k].fields.customfield_10011 = Some("Roadmap")
  /\ \E t \in ProjectTypes : t.name = "EPIC"
  /\ \E k \in 1..Len(validPayloads) : validPayloads[k].fields.customfield_10011 = None

\* C7: the scenario of three rows (a valid Story with points "5", a "Bug" row,
\* a Sub-task without Parent Key) against {Story, Task, Epic, Sub-task}, the
\* one payload accepted: createdCount = 1, failedCount = 2, the reason of row 2
\* lists "Story, Task, Epic, Sub-task", the reason of row 3 cites the missing
\* Parent Key.
C7_Scenario ==
  ( /\ data = <<RowStory, RowBug, RowOrphanSubtask>>
    /\ [j \in 1..Len(validIssueTypesMap) |-> validIssueTypesMap[j].value] = ScenarioTypes
    /\ BulkAnswered({"ok"})
    /\ Len(response[1].body.errors) = 0 ) =>
  /\ ReportedCreated = 1
  /\ ReportedFailed = 2
  /\ Len(ReportedReasons) = 2
  /\ ReportedReasons[1].kind = "InvalidIssueType"
  /\ ReportedReasons[1].issueType = "Bug"
  /\ ReportedReasons[1].validNames = <<"Story", "Task", "Epic", "Sub-task">>
  /\ ReportedReasons[2].kind = "MissingParentKey"
  /\ ReportedReasons[2].summary = Some("Write tests")

\* C8: the call reports success only if no row ended Skipped or Failed;
\* otherwise its message lists one reason per skipped or failed row.
C8_SuccessOnlyIfNothingFailed ==
  BulkAnswered({"ok"}) =>
    LET affected == Cardinality({i \in Rows : Skipped(i)}) + Len(response[1].body.errors)
    IN /\ result[1].success => affected = 0
       /\ ~result[1].success => Len(ReportedReasons) = affected

\* C9: at most one batch-create request is ever sent; once every row callback
\* has returned and some row passes validation, exactly one has been sent, and
\* it carries the payloads of all the rows that pass, in row order.
C9_OneBatchRequest ==
  /\ Cardinality(BulkRequests) <= 1
  /\ (AllRowsSettled /\ \E i \in Rows : PassesValidation(i)) =>
       LET passing == SortedSeq({i \in Rows : PassesValidation(i)}) IN
       /\ Cardinality(BulkRequests) = 1
       /\ \A i \in Rows : PassesValidation(i) => IsSome(issuePayloads[i])
       /\ \A j \in BulkRequests :
            requests[j].body = [k \in 1..Len(passing) |-> issuePayloads[passing[k]][1]]

C9_Witness ==
  /\ pc = "awaitBulk"
  /\ Cardinality({i \in Rows : PassesValidation(i)}) >= 2
  /\ \E i \in Rows : ~PassesValidation(i)
  /\ \E j \in BulkRequests : Len(requests[j].body) >= 2

\* C10: when the batch-create call fails (network error or non-OK answer), the
\* call returns success = false with one error, no created issues, no per-row
\* outcomes, and the batch-create request is the last request sent.
C10_BatchFailureIsOneError ==
  BulkAnswered({"networkError", "notOk"}) =>
    /\ ~result[1].success
    /\ IsSome(result[1].error)
    /\ result[1].details = None
    /\ result[1].error[1].createdCount = None
    /\ result[1].error[1].failedCount = None
    /\ result[1].error[1].failures = <<>>
    /\ Cardinality(BulkRequests) = 1
    /\ requests[Len(requests)].path = "/issue/bulk"

C10_Witness ==
  /\ BulkAnswered({"notOk"})
  /\ Len(response[1].body.errors) > 0
  /\ Len(issueCreationFailures) > 0

\* The uploaded file cannot be parsed, has no data row, or lacks one of the
\* two required headers.
BadFile ==
  /\ IsSome(form.file)
  /\ \/ ~form.file[1].readable
     \/ form.file[1].rows = <<>>
     \/ "Summary" \notin form.file[1].headers
     \/ "Issue Type" \notin form.file[1].headers

\* The call returned { success: false, error } with one text and no counts.
FatalError ==
  /\ pc = "done"
  /\ ~result[1].success
  /\ IsSome(result[1].error)
  /\ Len(result[1].error[1].text) = 1
  /\ result[1].error[1].createdCount = None
  /\ result[1].details = None

\* C11: when the uploaded file is empty, cannot be parsed, or lacks the
\* Summary or Issue Type header, no request of any kind is ever sent in the
\* call, and the call ends in its first step with a fatal error.
C11_BadFileNoRequest ==
  BadFile =>
    /\ requests = <<>>
    /\ pc \in {"start", "done"}
    /\ pc = "done" => FatalError

C11_Witness ==
  /\ FatalError
  /\ IsSome(form.file) /\ form.file[1].readable /\ form.file[1].rows /= <<>>
  /\ "Issue Type" \notin form.file[1].headers
  /\ requests = <<>>

\* The issue-type call of the project failed or returned an empty set.
IssueTypesFailedOrEmpty ==
  /\ IsSome(issueTypesResult)
  /\ \/ IsSome(issueTypesResult[1].error)
     \/ issueTypesResult[1].issueTypes = None
     \/ issueTypesResult[1].issueTypes = Some(<<>>)

ConfigFetchTexts ==
  { "Could not connect to Jira to fetch issue types.",
    "Failed to fetch issue types. Your token might have expired or lacks permissions.",
    "Could not fetch project configuration (issue types). Please ensure the project exists and you have permissions." }

\* C12: when the issue-type request of the project fails or returns an empty
\* set, the call ends with a configuration-fetch error before any row is
\* processed: no row is validated, no skip reason exists, and the issue-type
\* request is the only request sent.
C12_ConfigFetchErrorBeforeRows ==
  IssueTypesFailedOrEmpty =>
    /\ FatalError
    /\ result[1].error[1].text[1] \in ConfigFetchTexts
    /\ lookups = <<>>
    /\ issuePayloads = <<>>
    /\ issueCreationFailures = <<>>
    /\ requests = << IssueTypeRequest(form.projectId) >>

\* The rows whose payload the tracker rejected in its OK answer.
FailedRows ==
  {SubmittedRows[response[1].body.errors[j].failedElementNumber + 1] :
     j \in 1..Len(response[1].body.errors)}

\* The rows whose payload the tracker accepted.
CreatedRows == Range(SubmittedRows) \ FailedRows

SkippedRows == {i \in Rows : Skipped(i)}

\* C13: in a call that ends with a report, every data row has exactly one
\* outcome among Skipped, Created and Failed: a row is skipped or is in the
\* one batch exactly once, never both, and the counts of the report account
\* for every row of the file.
C13_OneOutcomePerRow ==
  BulkAnswered({"ok"}) =>
    /\ Cardinality(BulkRequests) = 1
    /\ BatchesHoldSubmittedRows
    /\ \A i \in Rows :
         Cardinality({S \in {SkippedRows, CreatedRows, FailedRows} : i \in S}) = 1
    /\ ReportedCreated = Cardinality(CreatedRows)
    /\ ReportedCreated + ReportedFailed = Len(data)

\* The validation rule that skips row i, in the order of the rules.
RuleOf(i) ==
  IF MissingRequired(i) THEN "MissingRequired"
  ELSE IF ResolvedTypes(i) = {} THEN "InvalidIssueType"
  ELSE IF OrphanSubtask(i) THEN "MissingParentKey"
  ELSE "none"

\* The call ended with a report of its rows: after an OK answer of the batch,
\* or with no row to send.
Reported == pc = "done" /\ RowsProcessed /\ (BulkAnswered({"ok"}) \/ BulkRequests = {})

\* C14: every row skipped by a validation rule (missing Summary or Issue Type,
\* unknown issue type, sub-task without Parent Key) has a skip reason of that
\* rule's own kind carrying the row's number (its line in the sheet), and the
\* reason is in the final report.
C14_EverySkipHasReason ==
  RowsProcessed =>
    \A i \in Rows : RuleOf(i) /= "none" =>
      /\ \E j \in 1..Len(issueCreationFailures) :
           /\ issueCreationFailures[j].kind = RuleOf(i)
           /\ issueCreationFailures[j].rowNum = Some(i + 1)
      /\ Reported =>
           \E j \in 1..Len(ReportedReasons) :
             /\ ReportedReasons[j].kind = RuleOf(i)
             /\ ReportedReasons[j].rowNum = Some(i + 1)

\* The rows for which a validation rule pushes a reason, in ascending order.
ReasonRows ==
  SortedSeq({i \in Rows : RuleOf(i) \in {"InvalidIssueType", "MissingParentKey"}})

IsValidationReason(m) == ~IsApiError(m)

\* The row behind the j-th element error of the OK answer.
FailedRow(j) == SubmittedRows[response[1].body.errors[j].failedElementNumber + 1]

\* C15: every report entry about the Nth data row, a validation skip or an
\* element failure of the tracker, carries the row number N, data rows counted
\* from 1 with the header left out.  The code numbers a skip of the Nth data
\* row N + 1 and gives an element failure no row number at all.
C15_RowNumberIsDataRowIndex ==
  RowsProcessed =>
    /\ Len(issueCreationFailures) = Len(ReasonRows)
    /\ \A j \in 1..Len(issueCreationFailures) :
         issueCreationFailures[j].rowNum = Some(ReasonRows[j])
    /\ BulkAnswered({"ok"}) =>
         LET details == SelectSeq(ReportedReasons, IsApiError) IN
         \A j \in 1..Len(details) : details[j].rowNum = Some(FailedRow(j))

UserSearchRequests == {j \in 1..Len(requests) : requests[j].path = "/user/search"}

IssueTypeRequests == {j \in 1..Len(requests) : requests[j].path = "/issuetype/project"}

\* C16: in one call the issue-type request is sent at most once, and no two
\* user-search requests are sent for the same email, letter case aside,
\* however many rows name it or fall back to the importing user's email.
C16_NoRefetch ==
  /\ Cardinality(IssueTypeRequests) <= 1
  /\ \A j, k \in UserSearchRequests :
       toLowerCase(requests[j].query) = toLowerCase(requests[k].query) => j = k

\* The account id a payload must carry for a lookup: that of the user found,
\* whose email is the one searched, letter case aside; none if none was found.
ResolvedId(lk) ==
  IF IsSome(lk.user) /\ IsSome(lk.user[1].emailAddress)
     /\ toLowerCase(lk.user[1].emailAddress[1]) = toLowerCase(lk.email)
  THEN Some(lk.user[1].accountId)
  ELSE None

\* C17: the payload of a validated row carries an assignee (a reporter) account
\* id exactly when the lookup of that user resolved, the reporter being looked
\* up under the importing user's email when the Reporter cell is empty; and a
\* row that passes validation has its payload once its lookups are over,
\* resolved or not.
C17_UserFieldsFollowLookups ==
  RowsProcessed =>
    \A i \in Rows :
      /\ (PassesValidation(i) /\ Settled(lookups[i])) => IsSome(issuePayloads[i])
      /\ IsSome(issuePayloads[i]) =>
           /\ lookups[i].assignee.email = data[i].Assignee
           /\ lookups[i].reporter.email =
                (IF data[i].Reporter = "" THEN credentials.email ELSE data[i].Reporter)
           /\ issuePayloads[i][1].fields.assignee = ResolvedId(lookups[i].assignee)
           /\ issuePayloads[i][1].fields.reporter = ResolvedId(lookups[i].reporter)

C17_Witness ==
  /\ pc = "awaitBulk"
  /\ \E i \in Rows :
       /\ IsSome(issuePayloads[i])
       /\ issuePayloads[i][1].fields.assignee = Some("acc-al")
       /\ data[i].Reporter = ""
       /\ issuePayloads[i][1].fields.reporter = Some("acc-me")
  /\ \E i \in Rows :
       /\ IsSome(issuePayloads[i])
       /\ data[i].Reporter = "ghost@x.io"
       /\ issuePayloads[i][1].fields.reporter = None
  /\ \E i \in Rows :
       /\ IsSome(issuePayloads[i])
       /\ data[i].Reporter = ""
       /\ issuePayloads[i][1].fields.reporter = None

\* The number a Story Points cell stands for, if it is one.
CellNumber(cell) ==
  CASE cell = "0" -> Some(0)
    [] cell = "5" -> Some(5)
    [] cell = "13" -> Some(13)
    [] OTHER -> None

\* C18: the payload of a validated row has the story-points field exactly when
\* its Story Points cell is a number, 0 included, with that number as value;
\* an empty or non-numeric cell leaves the field out and the row keeps its
\* payload.
C18_StoryPointsIffNumber ==
  RowsProcessed =>
    \A i \in Rows :
      /\ (PassesValidation(i) /\ Settled(lookups[i])) => IsSome(issuePayloads[i])
      /\ IsSome(issuePayloads[i]) =>
           issuePayloads[i][1].fields.customfield_10016 = CellNumber(data[i].StoryPoints)

\* C19: skipped rows never end the call: once every row callback has returned,
\* the one batch holds the payload of every row that passes validation,
\* whichever rules skipped the other rows; the call ends without a batch only
\* when no row passes; and every skip reason collected is in the final report,
\* in the order collected.
C19_SkipsNeverAbort ==
  /\ (AllRowsSettled /\ \E i \in Rows : PassesValidation(i)) =>
       /\ Cardinality(BulkRequests) = 1
       /\ BatchesHoldSubmittedRows
       /\ \A i \in Rows : PassesValidation(i) => i \in Range(SubmittedRows)
  /\ (pc = "done" /\ RowsProcessed /\ BulkRequests = {}) =>
       \A i \in Rows : ~PassesValidation(i)
  /\ Reported =>
       /\ Len(issueCreationFailures) = Len(ReasonRows)
       /\ SelectSeq(ReportedReasons, IsValidationReason) = issueCreationFailures

C19_Witness ==
  /\ BulkAnswered({"ok"})
  /\ \E i \in Rows : PassesValidation(i) /\ i = Len(data)
  /\ \E j \in 1..Len(ReportedReasons) : ReportedReasons[j].kind = "InvalidIssueType"
  /\ \E j \in 1..Len(ReportedReasons) : ReportedReasons[j].kind = "MissingParentKey"

\* C20: a batch-create request exists only when every row callback is over,
\* none of its user lookups still in flight, and it follows every user-search
\* request; whatever the order in which the lookups completed, the batch holds
\* the payloads of the submitted rows in ascending row order.
C20_JointAwaitKeepsRowOrder ==
  BulkRequests /= {} =>
    /\ RowsProcessed
    /\ \A i \in Rows :
         lookups[i].assignee.st /= "pending" /\ lookups[i].reporter.st /= "pending"
    /\ \A j \in BulkRequests : \A k \in UserSearchRequests : k < j
    /\ \A j \in BulkRequests :
         /\ Len(requests[j].body) = Len(SubmittedRows)
         /\ \A k \in 1..Len(SubmittedRows) :
              /\ requests[j].body[k] = issuePayloads[SubmittedRows[k]][1]
              /\ requests[j].body[k].fields.summary = data[SubmittedRows[k]].Summary
              /\ k > 1 => SubmittedRows[k - 1] < SubmittedRows[k]

C20_Witness ==
  /\ pc = "awaitBulk"
  /\ overtook
  /\ Len(validPayloads) = Len(data)
  /\ Len(data) >= 2
  /\ UserSearchRequests /= {}

\* The lookups of the rows that sent a user-search request.
StartedLookups ==
  {p \in Rows \X {"assignee", "reporter"} : lookups[p[1]][p[2]].st /= "null"}

\* A lookup that ended without a user although the tracker has one for its
\* email: its request failed (network error or non-OK answer).
SearchFailed(lk) ==
  /\ lk.st = "done"
  /\ lk.user = None
  /\ findUserByEmailReturn(lk.email, [kind |-> "ok", users |-> UserSearch(lk.email)]) /= None

\* C21: no request is retried: the issue-type request and the batch-create
\* request are sent at most once, every user lookup has exactly one
\* user-search request whatever its answer, and a failed issue-type or
\* batch-create call ends the call with an error, its request being the last
\* one sent.
C21_NoRetries ==
  /\ Cardinality(IssueTypeRequests) <= 1
  /\ Cardinality(BulkRequests) <= 1
  /\ RowsProcessed => Cardinality(UserSearchRequests) = Cardinality(StartedLookups)
  /\ (IsSome(issueTypesResult) /\ IsSome(issueTypesResult[1].error)) =>
       /\ pc = "done"
       /\ ~result[1].success
       /\ requests = << IssueTypeRequest(form.projectId) >>
  /\ (IsSome(response) /\ response[1].kind \in {"networkError", "notOk"}) =>
       /\ pc = "done"
       /\ ~result[1].success
       /\ requests[Len(requests)].path = "/issue/bulk"

C21_Witness ==
  /\ BulkAnswered({"networkError"})
  /\ \E i \in Rows : SearchFailed(lookups[i].reporter)
  /\ \E i \in Rows : SearchFailed(lookups[i].assignee)

\* C22: when a user-search request of the call failed, the call does not
\* report success: the failure shows in the result returned to the caller.
C22_FailedSearchSurfaces ==
  (pc = "done" /\ RowsProcessed /\ \E p \in StartedLookups : SearchFailed(lookups[p[1]][p[2]])) =>
    ~result[1].success

\* C25: when every row callback has returned and no row passes validation, the
\* call is over with success = false, the skip reasons collected as its error
\* (the fixed text when there are none), and no batch-create request was sent.
C25_NoValidRowsNoBatch ==
  (AllRowsSettled /\ \A i \in Rows : ~PassesValidation(i)) =>
    /\ pc = "done"
    /\ BulkRequests = {}
    /\ response = None
    /\ ~result[1].success
    /\ result[1].details = None
    /\ IsSome(result[1].error)
    /\ result[1].error[1].failures = issueCreationFailures
    /\ result[1].error[1].text =
         (IF issueCreationFailures = <<>>
          THEN << "No valid issues found in the file to import." >> ELSE <<>>)

C25_Witness ==
  /\ pc = "done"
  /\ AllRowsSettled
  /\ BulkRequests = {}
  /\ Len(data) >= 2
  /\ Len(result[1].error[1].failures) >= 2
  /\ \E i \in Rows : MissingRequired(i)

\* The user searches the rows that pass validation ask for, in row order, the
\* assignee before the reporter: a cell that is a well-formed email, and the
\* importing user's email for an empty Reporter cell.
ExpectedSearches ==
  Concat([i \in 1..Len(data) |->
    IF ~PassesValidation(i) THEN <<>>
    ELSE (IF EmailFormatOk(data[i].Assignee) THEN << data[i].Assignee >> ELSE <<>>)
         \o (IF data[i].Reporter = "" THEN << credentials.email >>
             ELSE IF EmailFormatOk(data[i].Reporter) THEN << data[i].Reporter >>
             ELSE <<>>)])

\* C26: a row that fails one of the three validation rules has no lookup
\* started, and the user-search requests sent are exactly those of the rows
\* that pass validation.
C26_NoSearchForSkippedRows ==
  RowsProcessed =>
    /\ \A i \in Rows :
         ~PassesValidation(i) =>
           lookups[i].assignee.st = "null" /\ lookups[i].reporter.st = "null"
    /\ LET sent == SortedSeq(UserSearchRequests) IN
       [k \in 1..Len(sent) |-> requests[sent[k]].query] = ExpectedSearches

C26_Witness ==
  /\ pc = "awaitRows"
  /\ \E i \in Rows : RuleOf(i) = "MissingParentKey" /\ data[i].Reporter = ""
  /\ \E i \in Rows : RuleOf(i) = "InvalidIssueType" /\ data[i].Assignee = "al@x.io"
  /\ Cardinality(UserSearchRequests) = 1

\* The row numbers of a list of skip reasons.
RowNumbers(reasons) == [j \in 1..Len(reasons) |-> reasons[j].rowNum[1]]

Ascending(s) == \A j \in 1..(Len(s) - 1) : s[j] < s[j + 1]

\* C27: the skip reasons are in ascending row order, in the shared list at
\* every moment and in the final report, where they precede the element
\* failures of the tracker, whatever the order in which the user lookups of
\* the rows completed.
C27_ReasonsInRowOrder ==
  /\ Ascending(RowNumbers(issueCreationFailures))
  /\ Reported =>
       LET reasons == SelectSeq(ReportedReasons, IsValidationReason) IN
       /\ Ascending(RowNumbers(reasons))
       /\ \A j \in 1..Len(ReportedReasons) :
            IsValidationReason(ReportedReasons[j]) <=> j <= Len(reasons)

C27_Witness ==
  /\ BulkAnswered({"ok"})
  /\ Len(data) = 3
  /\ Len(SelectSeq(ReportedReasons, IsValidationReason)) = 2
  /\ PassesValidation(2)
  /\ lookups[2].assignee.st = "done" /\ lookups[2].reporter.st = "done"
  /\ \E j \in 1..Len(ReportedReasons) : IsApiError(ReportedReasons[j])

\* The requests the second call has sent.
SecondRunRequests == SubSeq(requests, firstRun[1].sent + 1, Len(requests))

C24_CookieOnlyAfterOk ==
  [][ /\ (IsSome(cookie') /\ cookie' /= cookie) =>
           /\ login.pc = "awaitMyself"
           /\ login'.pc = "done"
           /\ login'.answer = Some("ok")
           /\ FieldErrors(login.fields[1]) = {}
           /\ redirected' = Some("/dashboard")
      /\ (login' /= login /\ login'.pc = "done" /\ login'.answer /= Some("ok")) =>
           /\ cookie' = cookie
           /\ redirected' = None
           /\ IsSome(loginState')
           /\ loginState'[1].fieldErrors /= {} \/ loginState'[1].api /= <<>>
      /\ (login' /= login /\ FieldErrors(login'.fields[1]) /= {}) =>
           login'.pc = "done" /\ login'.answer = None
    ]_vars

C24_Witness ==
  /\ login.pc = "done"
  /\ login.answer = Some("ok")
  /\ cookie = Some(ValidCredentialsString)
  /\ redirected = Some("/dashboard")
  /\ loginState = None
  /\ IsSome(served) /\ served[1].path = "/" /\ served[1].outcome = "page"

\* C30: a /dashboard path is served only to a request with the jira-auth
\* cookie and is redirected to '/' without it; '/' is served only to a request
\* without the cookie and is redirected to /dashboard with it; and a
\* /dashboard request made after logout deleted the cookie, no login having
\* set it again, is redirected to '/'.
C30_RoutesFollowCookie ==
  IsSome(served) =>
    LET s == served[1] IN
    /\ (s.path \in {"/dashboard", "/dashboard/issues"}) =>
         /\ s.outcome = "page" => IsSome(s.cookie)
         /\ ~IsSome(s.cookie) => s.outcome = "redirect:/"
         /\ s.afterLogout => s.outcome = "redirect:/"
    /\ s.path = "/" =>
         /\ s.outcome = "page" => ~IsSome(s.cookie)
         /\ IsSome(s.cookie) => s.outcome = "redirect:/dashboard"

C30_Witness ==
  /\ IsSome(served)
  /\ served[1].path = "/dashboard/issues"
  /\ served[1].afterLogout
  /\ served[1].outcome = "redirect:/"
  /\ login.answer = Some("ok")
  /\ redirected = Some("/")

\* C28: at most one bulkCreateIssues call started from the dialog is in flight
\* at any time, and while one is in flight the Import button is disabled,
\* whatever the user does with the dialog in between.
C28_OneCallInFlight ==
  /\ inFlight <= 1
  /\ inFlight > 0 => ImportDisabled

\* C29: getIssuesForProject terminates for every sequence of answers of the
\* tracker: every call eventually returns, also when the tracker answers with
\* pages of zero issues while startAt is below the total it reports.
C29_Terminates == <>(issuesPc = "done")

====
